---- MODULE Spec2Model ----
(***************************************************************************)
(* Model of the guards library (Gozala/guards).  The repository holds      *)
(* three implementations of the guard protocol side by side:               *)
(*   "factory"  src/unnamed/part_003          Guard(isValid, message)      *)
(*   "extend"   src/lib/guards.js:1-565       Guard = Extendable.extend    *)
(*   "early"    src/lib/guards.js:567-859     String / Number / Schema     *)
(* A guard is described once (a tree of descriptors) and interpreted by    *)
(* the code of the implementation held in `impl`.                          *)
(***************************************************************************)
EXTENDS Integers, Sequences, FiniteSets, TLC

VARIABLES impl, target, value, name, outcome, pc, argument, heap, invocations

vars == <<impl, target, value, name, outcome, pc, argument, heap, invocations>>

(***************************************************************************)
(* Bounds of the model.                                                    *)
(***************************************************************************)
\* The longest array the inputs hold is one longer than MaxLen, so that an
\* input can be longer than the longest tuple descriptor.
MaxLen == 3

(***************************************************************************)
(* JavaScript values.  Every value is a record of the same shape:          *)
(*   t  the kind of value, n  the payload of a number, s  the payload of   *)
(*   a string (for a function: the text it returns when it is called),     *)
(*   f  the own properties of an object, in insertion order, as records    *)
(*      [k |-> key, v |-> value],  e  the elements of an array.            *)
(***************************************************************************)
Undefined == [t |-> "undefined", n |-> 0, s |-> "", f |-> <<>>, e |-> <<>>]
Null == [t |-> "null", n |-> 0, s |-> "", f |-> <<>>, e |-> <<>>]
Num(i) == [t |-> "number", n |-> i, s |-> "", f |-> <<>>, e |-> <<>>]
Str(s) == [t |-> "string", n |-> 0, s |-> s, f |-> <<>>, e |-> <<>>]
BoxedStr(s) == [t |-> "String", n |-> 0, s |-> s, f |-> <<>>, e |-> <<>>]
Bool(s) == [t |-> "boolean", n |-> 0, s |-> s, f |-> <<>>, e |-> <<>>]
Fun(s) == [t |-> "function", n |-> 0, s |-> s, f |-> <<>>, e |-> <<>>]
Obj(f) == [t |-> "object", n |-> 0, s |-> "", f |-> f, e |-> <<>>]
Arr(e) == [t |-> "array", n |-> 0, s |-> "", f |-> <<>>, e |-> e]

Prop(k, v) == [k |-> k, v |-> v]

\* value[key] for a property name: the own property, or undefined.
RECURSIVE FindProp(_, _, _)
FindProp(f, k, i) ==
    IF i > Len(f) THEN Undefined
    ELSE IF f[i].k = k THEN f[i].v
    ELSE FindProp(f, k, i + 1)

Get(v, k) == IF v.t = "object" THEN FindProp(v.f, k, 1) ELSE Undefined

\* value[index] for an array index counted from 0: the element, or undefined.
At(v, i) == IF v.t = "array" /\ i + 1 <= Len(v.e) THEN v.e[i + 1] ELSE Undefined

Keys(v) == {v.f[i].k : i \in 1..Len(v.f)}

(***************************************************************************)
(* The predicates of ./type, which the guards import.                      *)
(***************************************************************************)
isUndefined(v) == v.t = "undefined"
isNull(v) == v.t = "null"
isNumber(v) == v.t = "number"
isString(v) == v.t = "string"
isBoolean(v) == v.t = "boolean"
isFunction(v) == v.t = "function"
isArray(v) == v.t = "array"
isObject(v) == v.t \in {"object", "array", "String"}

\* typeof value
TypeOf(v) ==
    CASE v.t = "undefined" -> "undefined"
      [] v.t = "number" -> "number"
      [] v.t = "string" -> "string"
      [] v.t = "boolean" -> "boolean"
      [] v.t = "function" -> "function"
      [] OTHER -> "object"

\* String(value), as a sequence of text tokens.
RECURSIVE ToStr(_)
RECURSIVE JoinFrom(_, _)
JoinFrom(e, i) ==
    IF i > Len(e) THEN <<>>
    ELSE (IF i > 1 THEN <<",">> ELSE <<>>)
         \o (IF e[i].t \in {"undefined", "null"} THEN <<>> ELSE ToStr(e[i]))
         \o JoinFrom(e, i + 1)

ToStr(v) ==
    CASE v.t = "undefined" -> <<"undefined">>
      [] v.t = "null" -> <<"null">>
      [] v.t = "number" -> <<ToString(v.n)>>
      [] v.t \in {"string", "String", "boolean"} -> <<v.s>>
      [] v.t = "function" -> <<"function () {...}">>
      [] v.t = "object" -> <<"[object Object]">>
      [] v.t = "array" -> JoinFrom(v.e, 1)

(***************************************************************************)
(* Error messages.  A template is a sequence of text tokens; the           *)
(* placeholders {{name}}, {{key}}, {{value}} and {{type}} are tokens.      *)
(* The backquotes of the source's templates are written as quotes.         *)
(***************************************************************************)
RECURSIVE IndexOf(_, _, _)
IndexOf(tpl, ph, i) ==
    IF i > Len(tpl) THEN 0
    ELSE IF tpl[i] = ph THEN i
    ELSE IndexOf(tpl, ph, i + 1)

\* String.prototype.replace(pattern, replacement) with a string pattern:
\* the first occurrence only.
Replace(tpl, ph, repl) ==
    LET i == IndexOf(tpl, ph, 1)
    IN  IF i = 0 THEN tpl
        ELSE SubSeq(tpl, 1, i - 1) \o repl \o SubSeq(tpl, i + 1, Len(tpl))

\* The replacement text of a value handed to replace(): its string form; a
\* function is called as a replacer and its result is used.
Replacement(v) == IF v.t = "function" THEN <<v.s>> ELSE ToStr(v)

\* template.replace(hint, name).replace("{{value}}", value)
\*         .replace("{{type}}", typeof value)
Render(tpl, hint, nm, v) ==
    Replace(Replace(Replace(tpl, hint, Replacement(nm)),
                    "{{value}}", Replacement(v)),
            "{{type}}", <<TypeOf(v)>>)

GuardMessage == <<"Unexpected value: '", "{{value}}", "'">>
FunctionMessage == <<"Function", " expected instead of ", "{{type}}", " '", "{{value}}", "'">>
StringMessage == <<"String", " expected instead of ", "{{type}}", " '", "{{value}}", "'">>
NumberMessage == <<"Number", " expected instead of ", "{{type}}", " '", "{{value}}", "'">>
BooleanMessage == <<"Boolean", " expected instead of ", "{{type}}", " '", "{{value}}", "'">>
NullMessage == <<"Boolean", " expected instead of ", "{{type}}", " '", "{{value}}", "'">>
SchemaMessage == <<"Object", " expected instead of ", "{{type}}", " '", "{{value}}", "'">>
ArrayMessage == <<"Array", " expected instead of ", "{{type}}", " '", "{{value}}", "'">>
TupleMessage == <<"Array", " expected instead of ", "{{type}}", " '", "{{value}}", "'">>
AnyOfMessage == <<"Passed value: '", "{{value}}", "' has invalid type or structure">>
ColorMessage == <<"Color is a number between 0 and 255">>

(***************************************************************************)
(* The outcome of a call: a returned value or a raised TypeError, and the  *)
(* log of the child guards the call invoked, in order, each with the       *)
(* value and the name it was handed.                                       *)
(***************************************************************************)
Return(v, calls) == [ok |-> TRUE, val |-> v, msg |-> <<>>, calls |-> calls]
Throw(msg, calls) == [ok |-> FALSE, val |-> Undefined, msg |-> msg, calls |-> calls]
Call(g, v, nm) == [g |-> g.lbl, v |-> v, n |-> nm]

(***************************************************************************)
(* Guard descriptors, as the constructors capture them.                    *)
(***************************************************************************)
NoOptions == [hasDefaults |-> FALSE, defaults |-> Undefined,
              hasMessage |-> FALSE, message |-> <<>>]
Defaults(d) == [hasDefaults |-> TRUE, defaults |-> d,
                hasMessage |-> FALSE, message |-> <<>>]
DefaultsMessage(d, m) == [hasDefaults |-> TRUE, defaults |-> d,
                          hasMessage |-> TRUE, message |-> m]
Message(m) == [hasDefaults |-> FALSE, defaults |-> Undefined,
               hasMessage |-> TRUE, message |-> m]

\* Guard(isValid, message)(options): the template is the option's, or the
\* kind's; the default is the option's, when it has one.
Guard(lbl, isValid, message, options) ==
    [kind |-> "primitive", lbl |-> lbl, isValid |-> isValid,
     hasDefault |-> options.hasDefaults, defaults |-> options.defaults,
     message |-> IF options.hasMessage THEN options.message ELSE message,
     fields |-> <<>>, guards |-> <<>>]

Function(lbl, options) == Guard(lbl, "isFunction", FunctionMessage, options)
String(lbl, options) == Guard(lbl, "isString", StringMessage, options)
Number(lbl, options) == Guard(lbl, "isNumber", NumberMessage, options)
Boolean(lbl, options) == Guard(lbl, "isBoolean", BooleanMessage, options)
NullGuard(lbl, options) == Guard(lbl, "isNull", NullMessage, options)

Field(k, g) == [k |-> k, g |-> g]

\* The property names of the model that are array indices, in ascending order.
IndexKeys == <<"0", "1", "2">>
IsIndexKey(k) == \E i \in 1..Len(IndexKeys) : IndexKeys[i] = k

\* Object.keys(descriptor) and for (key in descriptor): the own properties
\* whose names are array indices come first, in ascending order, then the
\* other properties in the order they were written.
RECURSIVE IndexFields(_, _)
IndexFields(fields, i) ==
    IF i > Len(IndexKeys) THEN <<>>
    ELSE SelectSeq(fields, LAMBDA f : f.k = IndexKeys[i]) \o IndexFields(fields, i + 1)

ObjectKeys(fields) ==
    IndexFields(fields, 1) \o SelectSeq(fields, LAMBDA f : ~IsIndexKey(f.k))

Schema(lbl, descriptor) ==
    [kind |-> "schema", lbl |-> lbl, isValid |-> "", hasDefault |-> FALSE,
     defaults |-> Undefined, message |-> SchemaMessage,
     fields |-> descriptor, guards |-> <<>>]

ArrayOf(lbl, g) ==
    [kind |-> "array", lbl |-> lbl, isValid |-> "", hasDefault |-> FALSE,
     defaults |-> Undefined, message |-> ArrayMessage,
     fields |-> <<>>, guards |-> <<g>>]

Tuple(lbl, guards) ==
    [kind |-> "tuple", lbl |-> lbl, isValid |-> "", hasDefault |-> FALSE,
     defaults |-> Undefined, message |-> TupleMessage,
     fields |-> <<>>, guards |-> guards]

AnyOf(lbl, guards) ==
    [kind |-> "anyof", lbl |-> lbl, isValid |-> "", hasDefault |-> FALSE,
     defaults |-> Undefined, message |-> AnyOfMessage,
     fields |-> <<>>, guards |-> guards]

\* A plain function of the caller used as a guard (the tests' `color`).
color ==
    [kind |-> "custom", lbl |-> "color", isValid |-> "", hasDefault |-> FALSE,
     defaults |-> Undefined, message |-> ColorMessage,
     fields |-> <<>>, guards |-> <<>>]

\* A child of a descriptor that is not a function (a number, undefined):
\* the call guard(value[key], key) of such a child raises a TypeError.
NotAFunction == <<"TypeError: ", "guard is not a function">>
NotAGuard(v) ==
    [kind |-> "value", lbl |-> "not a function", isValid |-> "", hasDefault |-> FALSE,
     defaults |-> v, message |-> NotAFunction,
     fields |-> <<>>, guards |-> <<>>]

\* The marker Guard.isGuard, which the plain functions of a caller lack.
isGuard(g) == g.kind # "custom"

\* isValid(value) of a primitive guard.
IsValid(g, v) ==
    CASE g.isValid = "isFunction" -> isFunction(v)
      [] g.isValid = "isString" -> isString(v)
      [] g.isValid = "isNumber" -> isNumber(v)
      [] g.isValid = "isBoolean" -> isBoolean(v)
      [] g.isValid = "isNull" -> isNull(v)
      [] OTHER -> TRUE

(***************************************************************************)
(* Invocation.  Apply(im, g, v, nm) is the call g(v, nm) as the code of    *)
(* implementation im runs it.                                              *)
(***************************************************************************)
RECURSIVE Apply(_, _, _, _)
RECURSIVE GSchemaEach(_, _, _, _, _)
RECURSIVE GArrayMap(_, _, _, _, _)
RECURSIVE GTupleMap(_, _, _, _, _)
RECURSIVE GAnyOfTry(_, _, _, _, _)
RECURSIVE SchemaForIn(_, _, _, _, _, _)
RECURSIVE ArrayMap(_, _, _, _, _)
RECURSIVE TupleForIn(_, _, _, _, _, _)
RECURSIVE AnyOfForIn(_, _, _, _, _)
RECURSIVE GSchemaEarlyEach(_, _, _, _, _)

\* The tests' custom guard `color`.
colorCall(v) ==
    IF isNumber(v) /\ v.n <= 255 /\ v.n >= 0
    THEN Return(v, <<>>)
    ELSE Throw(ColorMessage, <<>>)

(*************************** "factory" *************************************)

\* Mutants of `guard`.
\* if (isUndefined(value)) value = defaultValue, whether a default was given or not.
guardDefaultsAlways(g, v, nm) ==
    IF isUndefined(v) THEN Return(g.defaults, <<>>)
    ELSE IF ~IsValid(g, v) THEN Throw(Render(g.message, "{{name}}", nm, v), <<>>)
    ELSE Return(v, <<>>)

\* if (hasDefault && !isValid(value)) value = defaultValue
guardFallsBackOnInvalid(g, v, nm) ==
    IF g.hasDefault /\ ~IsValid(g, v) THEN Return(g.defaults, <<>>)
    ELSE IF ~IsValid(g, v) THEN Throw(Render(g.message, "{{name}}", nm, v), <<>>)
    ELSE Return(v, <<>>)

\* if (hasDefault && !value) value = defaultValue
guardDefaultsOnFalsy(g, v, nm) ==
    IF g.hasDefault /\ (v \in {Undefined, Null, Num(0), Str(""), Bool("false")})
    THEN Return(g.defaults, <<>>)
    ELSE IF ~IsValid(g, v) THEN Throw(Render(g.message, "{{name}}", nm, v), <<>>)
    ELSE Return(v, <<>>)

\* if (hasDefault && value == null) value = defaultValue
guardDefaultsOnNullish(g, v, nm) ==
    IF g.hasDefault /\ (isUndefined(v) \/ isNull(v)) THEN Return(g.defaults, <<>>)
    ELSE IF ~IsValid(g, v) THEN Throw(Render(g.message, "{{name}}", nm, v), <<>>)
    ELSE Return(v, <<>>)

\* The closure `guard` of a primitive guard.
guard(g, v, nm) ==
    IF g.hasDefault /\ isUndefined(v) THEN Return(g.defaults, <<>>)
    ELSE IF ~IsValid(g, v) THEN Throw(Render(g.message, "{{name}}", nm, v), <<>>)
    ELSE Return(v, <<>>)

\* Mutant of GSchemaEach: Object.keys(value) decides which guards run, so a
\* key the input lacks is stored as undefined and its guard is not asked.
GSchemaEachOwnKeysOnly(g, v, i, data, calls) ==
    IF i > Len(g.fields) THEN Return(Obj(data), calls)
    ELSE LET key == ObjectKeys(g.fields)[i].k
             child == ObjectKeys(g.fields)[i].g
             r == IF key \in Keys(v)
                  THEN Apply("factory", child, Get(v, key), Str(key))
                  ELSE Return(Undefined, <<>>)
             log == calls \o r.calls
         IN  IF r.ok
             THEN GSchemaEach(g, v, i + 1, Append(data, Prop(key, r.val)), log)
             ELSE Throw(r.msg, log)

\* Mutant of GSchemaEach: the error of a child is caught and raised again
\* with the name of the field in front.
GSchemaEachWrapsError(g, v, i, data, calls) ==
    IF i > Len(g.fields) THEN Return(Obj(data), calls)
    ELSE LET key == ObjectKeys(g.fields)[i].k
             child == ObjectKeys(g.fields)[i].g
             r == Apply("factory", child, Get(v, key), Str(key))
             log == calls \o <<Call(child, Get(v, key), Str(key))>> \o r.calls
         IN  IF r.ok
             THEN GSchemaEach(g, v, i + 1, Append(data, Prop(key, r.val)), log)
             ELSE Throw(<<key, ": ">> \o r.msg, log)

\* Mutant of GSchemaEach: the loop goes on after a child has raised, and the
\* error of the last child that raised is the one raised.
GSchemaEachLastError(g, v, i, data, calls) ==
    IF i > Len(g.fields) THEN Return(Obj(data), calls)
    ELSE LET key == ObjectKeys(g.fields)[i].k
             child == ObjectKeys(g.fields)[i].g
             r == Apply("factory", child, Get(v, key), Str(key))
             log == calls \o <<Call(child, Get(v, key), Str(key))>> \o r.calls
             rest == GSchemaEach(g, v, i + 1, data, log)
         IN  IF r.ok
             THEN GSchemaEach(g, v, i + 1, Append(data, Prop(key, r.val)), log)
             ELSE IF rest.ok THEN Throw(r.msg, rest.calls)
             ELSE rest

\* Object.keys(descriptor).forEach: data[key] = guard(value[key], key)
GSchemaEach(g, v, i, data, calls) ==
    IF i > Len(g.fields) THEN Return(Obj(data), calls)
    ELSE LET key == ObjectKeys(g.fields)[i].k
             child == ObjectKeys(g.fields)[i].g
             r == Apply("factory", child, Get(v, key), Str(key))
             log == calls \o <<Call(child, Get(v, key), Str(key))>> \o r.calls
         IN  IF r.ok
             THEN GSchemaEach(g, v, i + 1, Append(data, Prop(key, r.val)), log)
             ELSE Throw(r.msg, log)

\* Mutant of GSchema: undefined is not replaced by {} before the test.
GSchemaRequiresValue(g, v, key) ==
    IF ~isObject(v) \/ isArray(v)
    THEN Throw(Render(g.message, "{{key}}", key, v), <<>>)
    ELSE GSchemaEach(g, v, 1, <<>>, <<>>)

GSchema(g, v, key) ==
    LET val == IF isUndefined(v) THEN Obj(<<>>) ELSE v
    IN  IF ~isObject(val) \/ isArray(val)
        THEN Throw(Render(g.message, "{{key}}", key, val), <<>>)
        ELSE GSchemaEach(g, val, 1, <<>>, <<>>)

\* Mutant of GArrayMap: the elements mapped before the first invalid one are
\* returned.
GArrayMapKeepsValid(g, v, i, data, calls) ==
    IF i > Len(v.e) THEN Return(Arr(data), calls)
    ELSE LET child == g.guards[1]
             r == Apply("factory", child, v.e[i], Num(i - 1))
             log == calls \o <<Call(child, v.e[i], Num(i - 1))>> \o r.calls
         IN  IF r.ok
             THEN GArrayMap(g, v, i + 1, Append(data, r.val), log)
             ELSE Return(Arr(data), log)

\* value.map(function(value, index) { return guard(value, index) })
GArrayMap(g, v, i, data, calls) ==
    IF i > Len(v.e) THEN Return(Arr(data), calls)
    ELSE LET child == g.guards[1]
             r == Apply("factory", child, v.e[i], Num(i - 1))
             log == calls \o <<Call(child, v.e[i], Num(i - 1))>> \o r.calls
         IN  IF r.ok
             THEN GArrayMap(g, v, i + 1, Append(data, r.val), log)
             ELSE Throw(r.msg, log)

\* Mutant of GArray: the checked input is returned, not the mapped array.
GArrayUnmapped(g, v, key) ==
    LET val == IF isUndefined(v) THEN Arr(<<>>) ELSE v
    IN  IF ~isArray(val)
        THEN Throw(Render(g.message, "{{key}}", key, val), <<>>)
        ELSE Return(val, <<>>)

GArray(g, v, key) ==
    LET val == IF isUndefined(v) THEN Arr(<<>>) ELSE v
    IN  IF ~isArray(val)
        THEN Throw(Render(g.message, "{{key}}", key, val), <<>>)
        ELSE GArrayMap(g, val, 1, <<>>, <<>>)

\* Mutant of GTupleMap: guard index is handed the element after its own.
GTupleMapOffByOne(g, v, i, data, calls) ==
    IF i > Len(g.guards) THEN Return(Arr(data), calls)
    ELSE LET child == g.guards[i]
             r == Apply("factory", child, At(v, i), Num(i - 1))
             log == calls \o <<Call(child, At(v, i), Num(i - 1))>> \o r.calls
         IN  IF r.ok
             THEN GTupleMap(g, v, i + 1, Append(data, r.val), log)
             ELSE Throw(r.msg, log)

\* guards.map(function(guard, index) { return guard(value[index], index) })
GTupleMap(g, v, i, data, calls) ==
    IF i > Len(g.guards) THEN Return(Arr(data), calls)
    ELSE LET child == g.guards[i]
             r == Apply("factory", child, At(v, i - 1), Num(i - 1))
             log == calls \o <<Call(child, At(v, i - 1), Num(i - 1))>> \o r.calls
         IN  IF r.ok
             THEN GTupleMap(g, v, i + 1, Append(data, r.val), log)
             ELSE Throw(r.msg, log)

\* Mutant of GTuple: the test of the input's shape is missing.
GTupleUnchecked(g, v, key) ==
    LET val == IF isUndefined(v) THEN Arr(<<>>) ELSE v
    IN  GTupleMap(g, val, 1, <<>>, <<>>)

GTuple(g, v, key) ==
    LET val == IF isUndefined(v) THEN Arr(<<>>) ELSE v
    IN  IF ~isArray(val)
        THEN Throw(Render(g.message, "{{key}}", key, val), <<>>)
        ELSE GTupleMap(g, val, 1, <<>>, <<>>)

\* Mutant of GAnyOfTry: the error of the last alternative is raised again.
GAnyOfTryLastError(g, v, key, i, calls) ==
    IF i > Len(g.guards)
    THEN Throw(Replace(g.message, "{{value}}", Replacement(v)), calls)
    ELSE LET child == g.guards[i]
             r == Apply("factory", child, v, key)
             log == calls \o <<Call(child, v, key)>> \o r.calls
         IN  IF r.ok THEN Return(r.val, log)
             ELSE IF i = Len(g.guards) THEN Throw(r.msg, log)
             ELSE GAnyOfTry(g, v, key, i + 1, log)

\* for (i...) try { return guards[i](value, key) } catch(e) {}
GAnyOfTry(g, v, key, i, calls) ==
    IF i > Len(g.guards)
    THEN Throw(Replace(g.message, "{{value}}", Replacement(v)), calls)
    ELSE LET child == g.guards[i]
             r == Apply("factory", child, v, key)
             log == calls \o <<Call(child, v, key)>> \o r.calls
         IN  IF r.ok THEN Return(r.val, log)
             ELSE GAnyOfTry(g, v, key, i + 1, log)

\* Mutant of GAnyOf: undefined is returned before an alternative is tried.
GAnyOfPassesUndefined(g, v, key) ==
    IF isUndefined(v) THEN Return(v, <<>>) ELSE GAnyOfTry(g, v, key, 1, <<>>)

GAnyOf(g, v, key) == GAnyOfTry(g, v, key, 1, <<>>)

(*************************** "extend" **************************************)

SchemaIsValid(v) == isUndefined(v) \/ (isObject(v) /\ ~isArray(v))
ArrayIsValid(v) == isArray(v) \/ isUndefined(v)
TupleIsValid(v) == isArray(v) \/ isUndefined(v)

\* for (var key in this) if (this[key].isGuard)
\*   data[key] = this[key](value[key], name)
SchemaForIn(g, v, nm, i, data, calls) ==
    IF i > Len(g.fields) THEN Return(Obj(data), calls)
    ELSE LET key == ObjectKeys(g.fields)[i].k
             child == ObjectKeys(g.fields)[i].g
             r == Apply("extend", child, Get(v, key), nm)
             log == calls \o <<Call(child, Get(v, key), nm)>> \o r.calls
         IN  IF ~isGuard(child) THEN SchemaForIn(g, v, nm, i + 1, data, calls)
             ELSE IF r.ok
             THEN SchemaForIn(g, v, nm, i + 1, Append(data, Prop(key, r.val)), log)
             ELSE Throw(r.msg, log)

SchemaValidate(g, v, nm) ==
    LET val == IF isUndefined(v) THEN Obj(<<>>) ELSE v
    IN  SchemaForIn(g, val, nm, 1, <<>>, <<>>)

\* value.map(function(value, index) { return this[0](value, index) })
ArrayMap(g, v, i, data, calls) ==
    IF i > Len(v.e) THEN Return(Arr(data), calls)
    ELSE LET child == g.guards[1]
             r == Apply("extend", child, v.e[i], Num(i - 1))
             log == calls \o <<Call(child, v.e[i], Num(i - 1))>> \o r.calls
         IN  IF r.ok
             THEN ArrayMap(g, v, i + 1, Append(data, r.val), log)
             ELSE Throw(r.msg, log)

ArrayValidate(g, v, nm) ==
    LET val == IF isUndefined(v) THEN Arr(<<>>) ELSE v
    IN  ArrayMap(g, val, 1, <<>>, <<>>)

\* data[key] = ... on an array: the elements below key that were never
\* assigned are holes, which read as undefined.
Assign(data, i, v) ==
    [j \in 1..i |-> IF j = i THEN v
                    ELSE IF j <= Len(data) THEN data[j]
                    ELSE Undefined]

\* for (var key in this) if (this[key].isGuard)
\*   data[key] = this[key](value[key], name)
TupleForIn(g, v, nm, i, data, calls) ==
    IF i > Len(g.guards) THEN Return(Arr(data), calls)
    ELSE LET child == g.guards[i]
             r == Apply("extend", child, At(v, i - 1), nm)
             log == calls \o <<Call(child, At(v, i - 1), nm)>> \o r.calls
         IN  IF ~isGuard(child) THEN TupleForIn(g, v, nm, i + 1, data, calls)
             ELSE IF r.ok
             THEN TupleForIn(g, v, nm, i + 1, Assign(data, i, r.val), log)
             ELSE Throw(r.msg, log)

TupleValidate(g, v, nm) ==
    LET val == IF isUndefined(v) THEN Arr(<<>>) ELSE v
    IN  TupleForIn(g, val, nm, 1, <<>>, <<>>)

\* for (var key in this) if (this[key].isGuard)
\*   try { return this[key](value, name) } catch(error) {}
AnyOfForIn(g, v, nm, i, calls) ==
    IF i > Len(g.guards)
    THEN Throw(Replace(g.message, "{{value}}", Replacement(v)), calls)
    ELSE LET child == g.guards[i]
             r == Apply("extend", child, v, nm)
             log == calls \o <<Call(child, v, nm)>> \o r.calls
         IN  IF ~isGuard(child) THEN AnyOfForIn(g, v, nm, i + 1, calls)
             ELSE IF r.ok THEN Return(r.val, log)
             ELSE AnyOfForIn(g, v, nm, i + 1, log)

AnyOfValidate(g, v, nm) == AnyOfForIn(g, v, nm, 1, <<>>)

\* this.isValid(value)
ThisIsValid(g, v) ==
    CASE g.kind = "primitive" -> IsValid(g, v)
      [] g.kind = "schema" -> SchemaIsValid(v)
      [] g.kind = "array" -> ArrayIsValid(v)
      [] g.kind = "tuple" -> TupleIsValid(v)
      [] OTHER -> TRUE

\* this.validate(value, name)
ThisValidate(g, v, nm) ==
    CASE g.kind = "schema" -> SchemaValidate(g, v, nm)
      [] g.kind = "array" -> ArrayValidate(g, v, nm)
      [] g.kind = "tuple" -> TupleValidate(g, v, nm)
      [] g.kind = "anyof" -> AnyOfValidate(g, v, nm)
      [] OTHER -> Return(v, <<>>)

\* The constructor of Guard, which every guard made by extend() runs.
GuardConstructor(g, v, nm) ==
    LET val == IF g.hasDefault /\ isUndefined(v) THEN g.defaults ELSE v
    IN  IF ~ThisIsValid(g, val)
        THEN Throw(Render(g.message, "{{name}}", nm, val), <<>>)
        ELSE ThisValidate(g, val, nm)

(*************************** "early" ***************************************)

\* Mutant of GString: undefined is replaced only when a default was given.
GStringNeedsDefault(g, v, key) ==
    IF g.hasDefault /\ isUndefined(v) THEN Return(g.defaults, <<>>)
    ELSE IF ~isString(v) THEN Throw(Render(g.message, "{{key}}", key, v), <<>>)
    ELSE Return(v, <<>>)

GString(g, v, key) ==
    IF isUndefined(v) THEN Return(g.defaults, <<>>)
    ELSE IF ~isString(v) THEN Throw(Render(g.message, "{{key}}", key, v), <<>>)
    ELSE Return(v, <<>>)

GNumber(g, v, key) ==
    IF isUndefined(v) THEN Return(g.defaults, <<>>)
    ELSE IF ~isNumber(v) THEN Throw(Render(g.message, "{{key}}", key, v), <<>>)
    ELSE Return(v, <<>>)

GSchemaEarlyEach(g, v, i, data, calls) ==
    IF i > Len(g.fields) THEN Return(Obj(data), calls)
    ELSE LET key == ObjectKeys(g.fields)[i].k
             child == ObjectKeys(g.fields)[i].g
             r == Apply("early", child, Get(v, key), Str(key))
             log == calls \o <<Call(child, Get(v, key), Str(key))>> \o r.calls
         IN  IF r.ok
             THEN GSchemaEarlyEach(g, v, i + 1, Append(data, Prop(key, r.val)), log)
             ELSE Throw(r.msg, log)

GSchemaEarly(g, v, key) ==
    LET val == IF isUndefined(v) THEN Obj(<<>>) ELSE v
    IN  IF ~isObject(val)
        THEN Throw(Render(g.message, "{{key}}", key, val), <<>>)
        ELSE GSchemaEarlyEach(g, val, 1, <<>>, <<>>)

Apply(im, g, v, nm) ==
    IF g.kind = "custom" THEN colorCall(v)
    ELSE IF g.kind = "value" THEN Throw(g.message, <<>>)
    ELSE CASE im = "factory" ->
                (CASE g.kind = "primitive" -> guard(g, v, nm)
                   [] g.kind = "schema" -> GSchema(g, v, nm)
                   [] g.kind = "array" -> GArray(g, v, nm)
                   [] g.kind = "tuple" -> GTuple(g, v, nm)
                   [] g.kind = "anyof" -> GAnyOf(g, v, nm))
           [] im = "extend" -> GuardConstructor(g, v, nm)
           [] im = "early" ->
                (CASE g.kind = "schema" -> GSchemaEarly(g, v, nm)
                   [] g.isValid = "isString" -> GString(g, v, nm)
                   [] g.isValid = "isNumber" -> GNumber(g, v, nm))

(***************************************************************************)
(* The guards of the tests and of the documentation.                       *)
(***************************************************************************)
BoomMessage == <<"Boom -> ", "{{value}}", "!">>
NotANumberMessage == <<"number expected not a ", "{{type}}">>
\* Templates that name the guarded part, in the two spellings of the placeholder.
NamedMessage == <<"{{name}}", " must be a number, not '", "{{value}}", "'">>
KeyedMessage == <<"{{key}}", " must be a string, not '", "{{value}}", "'">>
\* A template that shows the value before its type.
ValueFirstMessage == <<"'", "{{value}}", "' is a ", "{{type}}", ", not a number">>

StringDefault == String("String(default)", Defaults(Str("default")))
StringNone == String("String()", NoOptions)
StringBoom == String("String(,Boom)", DefaultsMessage(Str(""), BoomMessage))
StringEmpty == String("String('')", Defaults(Str("")))
Number0 == Number("Number(0)", Defaults(Num(0)))
Number1 == Number("Number(1)", Defaults(Num(1)))
Number5 == Number("Number(5)", Defaults(Num(5)))
NumberNone == Number("Number()", NoOptions)
NumberTyped == Number("Number(0,msg)", DefaultsMessage(Num(0), NotANumberMessage))
Callee == Function("Function(Anonymous)", Defaults(Str("Anonymous")))
FunctionNone == Function("Function()", NoOptions)
BooleanNone == Boolean("Boolean()", NoOptions)
NullNone == NullGuard("Null()", NoOptions)
NumberNamed == Number("Number(,{{name}})", Message(NamedMessage))
StringKeyed == String("String(,{{key}})", Message(KeyedMessage))
NumberValueFirst == Number("Number(,{{value}} is)", Message(ValueFirstMessage))
\* Guard.extend({}) / Guard(function() { return true })(): every value is valid.
AnyValue == Guard("Guard()", "", GuardMessage, NoOptions)

Point == Schema("Point", <<Field("x", Number0), Field("y", Number0)>>)
Segment == Schema("Segment", <<Field("start", Point), Field("end", Point),
                               Field("opacity", Number1)>>)
Strict == Schema("Strict", <<Field("x", NumberNone), Field("y", StringNone)>>)
Words == ArrayOf("Words", StringEmpty)
Points == ArrayOf("Points", Point)
Graph == ArrayOf("Graph", Points)
Colors == ArrayOf("Colors", color)
ArrayPoint == Tuple("ArrayPoint", <<Number0, Number0>>)
Pointer == Tuple("Pointer", <<Point, Segment>>)
RGB == Tuple("RGB", <<color, color, color>>)
Mixed == Tuple("Mixed", <<NumberNone, color, Number0>>)
ColorSegment == Schema("ColorSegment", <<Field("start", Point), Field("end", Point),
                                         Field("color", RGB)>>)
Tinted == Schema("Tinted", <<Field("x", Number0), Field("tint", color)>>)
\* A descriptor with a property whose name is an array index, written last.
Indexed == Schema("Indexed", <<Field("b", NumberNone), Field("1", StringNone)>>)
\* Guards whose children name the guarded part in their messages.
Named == Schema("Named", <<Field("width", NumberNamed), Field("label", StringKeyed)>>)
Outer == Schema("Outer", <<Field("inner", Named)>>)
NamedList == ArrayOf("NamedList", NumberNamed)
NamedPair == Tuple("NamedPair", <<NumberNamed, StringKeyed>>)
AnyPoint == AnyOf("AnyPoint", <<Point, ArrayPoint>>)
AnyScalar == AnyOf("AnyScalar", <<NumberNone, StringDefault>>)
\* The alternatives of AnyPoint in the other order.
AnyArrayPoint == AnyOf("AnyArrayPoint", <<ArrayPoint, Point>>)
\* Two alternatives that accept the same values and differ in their default.
AnyText == AnyOf("AnyText", <<StringDefault, StringEmpty>>)
AnyEmptyText == AnyOf("AnyEmptyText", <<StringEmpty, StringDefault>>)
\* A plain function of the caller as an alternative.
AnyColor == AnyOf("AnyColor", <<color, StringDefault>>)
\* No alternative has a default.
AnyStrict == AnyOf("AnyStrict", <<NumberNone, StringNone>>)
\* The second alternative returns objects that the first one accepts.
Zed == Schema("Zed", <<Field("z", Number0)>>)
AnyZed == AnyOf("AnyZed", <<Point, Zed>>)

Primitives == {StringDefault, StringNone, StringBoom, StringEmpty, Number0, Number1,
               NumberNone, NumberTyped, Callee, FunctionNone, BooleanNone, NullNone,
               AnyValue, NumberNamed, StringKeyed, Number5, NumberValueFirst}
Schemas == {Point, Segment, Strict, ColorSegment, Tinted, Indexed, Named, Outer,
            Zed}
Arrays == {Words, Points, Graph, Colors, NamedList}
Tuples == {ArrayPoint, Pointer, RGB, Mixed, NamedPair}
AnyOfs == {AnyPoint, AnyScalar, AnyArrayPoint, AnyText, AnyEmptyText, AnyColor,
           AnyStrict, AnyZed}
Guards == Primitives \cup Schemas \cup Arrays \cup Tuples \cup AnyOfs \cup {color}

\* The early implementation has String, Number and Schema only.
EarlyGuards == {StringDefault, StringNone, StringBoom, StringEmpty, Number0, Number1,
                Number5, NumberNone, NumberTyped, Point, Segment, Strict, Indexed}

Impls == {"factory", "extend", "early"}

(***************************************************************************)
(* The values the guards are invoked with.                                 *)
(***************************************************************************)
RECURSIVE PropsFrom(_, _, _)
PropsFrom(keys, vals, i) ==
    IF i > Len(keys) THEN {<<>>}
    ELSE LET rest == PropsFrom(keys, vals, i + 1)
         IN  rest \cup {<<Prop(keys[i], v)>> \o r : v \in vals, r \in rest}

ObjectsOver(keys, vals) == {Obj(f) : f \in PropsFrom(keys, vals, 1)}
ArraysOver(vals, n) == {Arr(e) : e \in UNION {[1..k -> vals] : k \in 0..n}}

\* The last one is a string that reads as a placeholder.
Atoms == {Undefined, Null, Num(0), Num(17), Num(256), Str("foo"), Str("5"),
          BoxedStr("foo bar"), Bool("true"), Fun("hello world"),
          Str(""), Bool("false"), Str("{{type}}")}
PointInputs == ObjectsOver(<<"x", "y", "z">>, {Num(17), Str("5")})
SegmentInputs ==
    ObjectsOver(<<"start", "end", "opacity", "foo">>,
                {Num(17), Obj(<<Prop("x", Num(17)), Prop("foo", Str("bar"))>>)})
ColorSegmentInputs ==
    ObjectsOver(<<"end", "color", "colors">>,
                {Obj(<<Prop("y", Num(23))>>), Arr(<<Num(17), Num(255), Num(0)>>),
                 Arr(<<Num(0), Num(255), Num(256)>>)})
TintedInputs == ObjectsOver(<<"x", "tint">>, {Num(17), Num(256)})
IndexedInputs == ObjectsOver(<<"b", "1">>, {Num(17), Str("5")})
NamedInputs ==
    ObjectsOver(<<"width", "label">>, {Num(17), Str("5")})
      \cup {Obj(<<Prop("inner", v)>>) :
               v \in ObjectsOver(<<"width", "label">>, {Num(17), Str("5")})}
ScalarArrays == ArraysOver({Num(1), Str("foo"), Undefined}, MaxLen)
ColorArrays == ArraysOver({Num(17), Num(256)}, MaxLen + 1)
PointArrays ==
    ArraysOver({Obj(<<>>), Obj(<<Prop("x", Num(2)), Prop("y", Num(8))>>),
                Obj(<<Prop("x", Str("5"))>>)}, MaxLen)
GraphInputs ==
    ArraysOver({Arr(<<>>), Arr(<<Obj(<<Prop("x", Num(17)), Prop("foo", Str("bar"))>>)>>),
                Str("foo")}, MaxLen)
PointerInputs ==
    ArraysOver({Obj(<<Prop("foo", Str("bar"))>>), Obj(<<Prop("x", Num(17))>>),
                Str("foo")}, MaxLen)
\* Inputs whose invalid part lies two and three layers deep.
DeepInputs ==
    {Obj(<<Prop("start", Obj(<<Prop("x", Str("5"))>>))>>),
     Arr(<<Obj(<<>>), Obj(<<Prop("start", Obj(<<Prop("x", Str("5"))>>))>>)>>),
     Arr(<<Arr(<<Obj(<<Prop("x", Num(17))>>), Obj(<<Prop("y", Str("5"))>>)>>)>>)}
\* The inputs of the tests of AnyOf.
AnyOfInputs == {Arr(<<Num(1)>>), Obj(<<Prop("y", Num(15))>>), Num(1)}

Inputs == Atoms \cup PointInputs \cup SegmentInputs \cup ColorSegmentInputs
          \cup TintedInputs \cup ScalarArrays \cup ColorArrays \cup PointArrays
          \cup GraphInputs \cup PointerInputs \cup AnyOfInputs
          \cup DeepInputs \cup IndexedInputs \cup NamedInputs

\* The second argument of a top-level call: nothing, a name, or a name that
\* reads as a placeholder.
Names == {Undefined, Str("field"), Str("{{value}}")}

(***************************************************************************)
(* The objects and arrays of a run, each with an identity: those the       *)
(* caller made, and those the first and the second invocation make.  A     *)
(* reference is a value like the others; an object or array in the heap    *)
(* holds primitive values and references.                                  *)
(***************************************************************************)
NoObjects == [caller |-> <<>>, first |-> <<>>, second |-> <<>>]
Ref(region, i) == [t |-> "ref", n |-> i, s |-> region, f |-> <<>>, e |-> <<>>]

(***************************************************************************)
(* What a caller hands to a constructor, as the caller holds it: an object *)
(* of guards, an array of guards, a value that is neither, or the options  *)
(* of a primitive guard.                                                   *)
(***************************************************************************)
NoDescriptor == [shape |-> "none", fields |-> <<>>, guards |-> <<>>, raw |-> Undefined]
Mapping(fields) == [shape |-> "object", fields |-> fields, guards |-> <<>>, raw |-> Undefined]
Listing(guards) == [shape |-> "array", fields |-> <<>>, guards |-> guards, raw |-> Undefined]
Neither(v) == [shape |-> v.t, fields |-> <<>>, guards |-> <<>>, raw |-> v]
Options(v) == [shape |-> "options", fields |-> <<>>, guards |-> <<>>, raw |-> v]
AGuard(g) == [shape |-> "function", fields |-> <<>>, guards |-> <<g>>, raw |-> Undefined]

(***************************************************************************)
(* The state machine: a guard is constructed, then invoked.                *)
(***************************************************************************)
Init ==
    /\ impl \in Impls
    /\ target \in (IF impl = "early" THEN EarlyGuards ELSE Guards)
    /\ value = Undefined
    /\ name = Undefined
    /\ outcome = Return(Undefined, <<>>)
    /\ pc = "ready"
    /\ argument = NoDescriptor
    /\ heap = NoObjects
    /\ invocations = <<>>

\* The call target(v, nm) and its outcome.
Invoked(v, nm) ==
    /\ value' = v
    /\ name' = nm
    /\ outcome' = Apply(impl, target, v, nm)
    /\ pc' = "done"
    /\ UNCHANGED <<impl, target, argument, heap, invocations>>

InvokePrimitive ==
    /\ pc = "ready"
    /\ target.kind = "primitive"
    /\ \E v \in Inputs, nm \in Names : Invoked(v, nm)

InvokeSchema ==
    /\ pc = "ready"
    /\ target.kind = "schema"
    /\ \E v \in Inputs, nm \in Names : Invoked(v, nm)

InvokeArray ==
    /\ pc = "ready"
    /\ target.kind = "array"
    /\ \E v \in Inputs, nm \in Names : Invoked(v, nm)

InvokeTuple ==
    /\ pc = "ready"
    /\ target.kind = "tuple"
    /\ \E v \in Inputs, nm \in Names : Invoked(v, nm)

InvokeAnyOf ==
    /\ pc = "ready"
    /\ target.kind = "anyof"
    /\ \E v \in Inputs, nm \in Names : Invoked(v, nm)

InvokeCustom ==
    /\ pc = "ready"
    /\ target.kind = "custom"
    /\ \E v \in Inputs, nm \in Names : Invoked(v, nm)

Next ==
    \/ InvokePrimitive
    \/ InvokeSchema
    \/ InvokeArray
    \/ InvokeTuple
    \/ InvokeAnyOf
    \/ InvokeCustom

Spec == Init /\ [][Next]_vars

(***************************************************************************)
(* Construction, and the life of a guard after it: the caller builds a     *)
(* guard, may then change the descriptor it handed to the constructor,     *)
(* and invokes the guard.  "factory" and "early" only: the constructors of *)
(* "extend" are Extendable.extend, which src/ does not hold.               *)
(***************************************************************************)
\* ToBoolean(value)
Truthy(v) == v \notin {Undefined, Null, Num(0), Str(""), Bool("false")}

\* `key in value` needs an object on its right and raises a TypeError for
\* any other value.
HasProperties(v) == v.t \in {"object", "array", "function", "String"}

NotAnObject == <<"TypeError: ", "cannot use 'in' operator to search for 'message'">>
KeysOfNonObject == <<"TypeError: ", "Object.keys called on non-object">>
NoMapMethod == <<"TypeError: ", "guards.map is not a function">>

\* The text of options.message, as a template.
TemplateOf(v) == IF v = Str("Boom -> {{value}}!") THEN BoomMessage ELSE <<v.s>>

\* The template a built-in primitive guard is made with.
CanonicalMessage(isValid) ==
    CASE isValid = "isString" -> StringMessage
      [] isValid = "isNumber" -> NumberMessage
      [] isValid = "isBoolean" -> BooleanMessage
      [] isValid = "isNull" -> NullMessage
      [] isValid = "isFunction" -> FunctionMessage

\* What a constructor call comes to: a guard, or a raised error.
Built(g) == [ok |-> TRUE, guard |-> g, msg |-> <<>>]
Raised(msg) == [ok |-> FALSE, guard |-> NotAGuard(Undefined), msg |-> msg]

\* Guard(isValid, message)(options) of part_003: options = options || {},
\* then 'message' in options and owns(options, 'defaults').
NewGuard(isValid, options) ==
    LET opts == IF Truthy(options) THEN options ELSE Obj(<<>>)
    IN  IF ~HasProperties(opts) THEN Raised(NotAnObject)
        ELSE Built(Guard(isValid, isValid, CanonicalMessage(isValid),
                         [hasDefaults |-> "defaults" \in Keys(opts),
                          defaults |-> Get(opts, "defaults"),
                          hasMessage |-> "message" \in Keys(opts),
                          message |-> TemplateOf(Get(opts, "message"))]))

\* String(defaultValue, message) and Number(defaultValue, message) of the
\* early implementation, with no message given.
NewEarly(isValid, defaultValue) ==
    Built(Guard(isValid, isValid, CanonicalMessage(isValid),
                [hasDefaults |-> ~isUndefined(defaultValue),
                 defaults |-> defaultValue,
                 hasMessage |-> FALSE, message |-> <<>>]))

\* Object.keys(descriptor) with descriptor[key]: the properties of an
\* object, the indices of an array, nothing for a function.
FieldsOf(d) ==
    IF d.shape = "object" THEN d.fields
    ELSE IF d.shape = "array"
    THEN [i \in 1..Len(d.guards) |-> Field(ToString(i - 1), d.guards[i])]
    ELSE <<>>

\* Schema(descriptor): a closure; the early one returns a descriptor that is
\* a function as it is.
NewSchema(im, d) ==
    IF im = "early" /\ d.shape = "function" THEN d.guards[1]
    ELSE Schema("Schema", FieldsOf(d))

\* Tuple(guards): a closure.
NewTuple(d) == Tuple("Tuple", IF d.shape = "array" THEN d.guards ELSE <<>>)

\* Array(guard): a closure over the one argument.
NewArray(d) ==
    ArrayOf("Array", IF d.shape = "function" THEN d.guards[1] ELSE NotAGuard(d.raw))

\* AnyOf(...): a closure over a copy of the arguments.
NewAnyOf(d) == AnyOf("AnyOf", d.guards)

\* The call g(v, nm) of a built guard.  The closures GSchema and GTuple read
\* the descriptor the caller handed over, as it is at the time of the call;
\* GAnyOf reads its own copy and GArray its one guard.
Run(im, g, d, v, nm) ==
    IF g.kind = "schema" /\ ~(im = "early" /\ d.shape = "function")
    THEN LET test == Apply(im, [g EXCEPT !.fields = <<>>], v, nm)
         IN  IF ~test.ok THEN test
             ELSE IF d.shape \in {"undefined", "null"} THEN Throw(KeysOfNonObject, <<>>)
             ELSE Apply(im, [g EXCEPT !.fields = FieldsOf(d)], v, nm)
    ELSE IF g.kind = "tuple"
    THEN LET test == Apply(im, [g EXCEPT !.guards = <<>>], v, nm)
         IN  IF ~test.ok THEN test
             ELSE IF d.shape # "array" THEN Throw(NoMapMethod, <<>>)
             ELSE Apply(im, [g EXCEPT !.guards = d.guards], v, nm)
    ELSE Apply(im, g, v, nm)

\* The arguments the constructors are called with.
OptionValues ==
    {Undefined, Null, Num(0), Num(5), Str(""), Str("default"), Bool("true"),
     Bool("false"), Obj(<<>>), Obj(<<Prop("defaults", Str("default"))>>),
     Obj(<<Prop("defaults", Num(5))>>),
     Obj(<<Prop("message", Str("Boom -> {{value}}!"))>>), Arr(<<>>),
     Fun("Anonymous")}
SchemaDescriptors ==
    {Mapping(Point.fields), Mapping(Segment.fields), Mapping(<<>>),
     Mapping(<<Field("x", NotAGuard(Num(5)))>>), Listing(<<Number0, StringNone>>),
     Neither(Undefined), Neither(Null), AGuard(Point)}
TupleDescriptors ==
    {Listing(ArrayPoint.guards), Listing(Pointer.guards), Listing(<<>>),
     Listing(<<NotAGuard(Num(5))>>), Mapping(Point.fields),
     Neither(Undefined), Neither(Null), Neither(Num(5))}
ArrayDescriptors == {AGuard(Point), AGuard(Number0), Neither(Undefined), Neither(Num(5))}
AnyOfDescriptors ==
    {Listing(AnyPoint.guards), Listing(AnyScalar.guards), Listing(<<>>),
     Listing(<<NotAGuard(Num(5)), Number0>>)}

\* delete descriptor[last], descriptor[first] = String(), and
\* descriptor.w = Number(1) or guards.push(Number(1)).
Changes(d) ==
    IF d.shape = "object" /\ Len(d.fields) > 0
    THEN {Mapping(SubSeq(d.fields, 1, Len(d.fields) - 1)),
          Mapping([d.fields EXCEPT ![1].g = StringNone]),
          Mapping(Append(d.fields, Field("w", Number1)))}
    ELSE IF d.shape = "array" /\ Len(d.guards) > 0
    THEN {Listing(SubSeq(d.guards, 1, Len(d.guards) - 1)),
          Listing([d.guards EXCEPT ![1] = StringNone]),
          Listing(Append(d.guards, Number1))}
    ELSE {}

LifeInputs ==
    {Undefined, Null, Num(17), Str("foo"), Obj(<<>>), Obj(<<Prop("x", Num(17))>>),
     Obj(<<Prop("x", Str("5")), Prop("w", Str("5"))>>), Arr(<<>>),
     Arr(<<Num(1), Str("foo")>>), Arr(<<Obj(<<>>), Num(17)>>)}

InitLife ==
    /\ impl \in {"factory", "early"}
    /\ target = NotAGuard(Undefined)
    /\ argument = NoDescriptor
    /\ value = Undefined
    /\ name = Undefined
    /\ outcome = Return(Undefined, <<>>)
    /\ pc = "new"
    /\ heap = NoObjects
    /\ invocations = <<>>

\* The constructor call with the argument d, which comes to r.
Constructed(r, d) ==
    /\ target' = r.guard
    /\ argument' = d
    /\ outcome' = (IF r.ok THEN Return(Undefined, <<>>) ELSE Throw(r.msg, <<>>))
    /\ pc' = (IF r.ok THEN "built" ELSE "failed")
    /\ UNCHANGED <<impl, value, name, heap, invocations>>

ConstructPrimitive ==
    /\ pc = "new"
    /\ \E isValid \in (IF impl = "early" THEN {"isString", "isNumber"}
                       ELSE {"isString", "isNumber", "isBoolean", "isNull",
                             "isFunction"}),
          o \in OptionValues :
            Constructed(IF impl = "early" THEN NewEarly(isValid, o)
                        ELSE NewGuard(isValid, o), Options(o))

ConstructSchema ==
    /\ pc = "new"
    /\ \E d \in SchemaDescriptors : Constructed(Built(NewSchema(impl, d)), d)

ConstructArray ==
    /\ pc = "new" /\ impl = "factory"
    /\ \E d \in ArrayDescriptors : Constructed(Built(NewArray(d)), d)

ConstructTuple ==
    /\ pc = "new" /\ impl = "factory"
    /\ \E d \in TupleDescriptors : Constructed(Built(NewTuple(d)), d)

ConstructAnyOf ==
    /\ pc = "new" /\ impl = "factory"
    /\ \E d \in AnyOfDescriptors : Constructed(Built(NewAnyOf(d)), d)

\* The caller changes the object or array it has built a guard from.
ChangeDescriptor ==
    /\ pc = "built"
    /\ \/ target.kind = "schema" /\ argument.shape \in {"object", "array"}
       \/ target.kind \in {"tuple", "anyof"} /\ argument.shape = "array"
    /\ \E d \in Changes(argument) : argument' = d
    /\ pc' = "changed"
    /\ UNCHANGED <<impl, target, value, name, outcome, heap, invocations>>

InvokeBuilt ==
    /\ pc \in {"built", "changed"}
    /\ \E v \in LifeInputs, nm \in {Undefined, Str("field")} :
          /\ value' = v
          /\ name' = nm
          /\ outcome' = Run(impl, target, argument, v, nm)
    /\ pc' = (IF pc = "changed" THEN "called after change" ELSE "called")
    /\ UNCHANGED <<impl, target, argument, heap, invocations>>

NextLife ==
    \/ ConstructPrimitive
    \/ ConstructSchema
    \/ ConstructArray
    \/ ConstructTuple
    \/ ConstructAnyOf
    \/ ChangeDescriptor
    \/ InvokeBuilt

Lifecycle == InitLife /\ [][NextLife]_vars

(***************************************************************************)
(* Invocation step by step.  Two calls of the same guard run interleaved:  *)
(* a step of a call is the entry into a guard, the move of a loop to its   *)
(* next child, or the return of a child into the loop that called it.      *)
(* Each call has its stack of frames; a frame holds the guard, its         *)
(* `value`, its `name`, the position of its loop and its `data`.           *)
(***************************************************************************)
Procs == {1, 2}
Region(p) == IF p = 1 THEN "first" ELSE "second"

\* The objects of the caller that make up the value v, added to objs, and
\* the reference (or the primitive value) that stands for v.
RECURSIVE Store(_, _)
RECURSIVE StoreEach(_, _, _, _)
StoreEach(objs, vs, i, acc) ==
    IF i > Len(vs) THEN [objs |-> objs, xs |-> acc]
    ELSE LET r == Store(objs, vs[i])
         IN  StoreEach(r.objs, vs, i + 1, Append(acc, r.x))

Store(objs, v) ==
    IF v.t = "object"
    THEN LET r == StoreEach(objs, [i \in 1..Len(v.f) |-> v.f[i].v], 1, <<>>)
         IN  [objs |-> Append(r.objs, Obj([i \in 1..Len(v.f) |-> Prop(v.f[i].k, r.xs[i])])),
              x |-> Ref("caller", Len(r.objs) + 1)]
    ELSE IF v.t = "array"
    THEN LET r == StoreEach(objs, v.e, 1, <<>>)
         IN  [objs |-> Append(r.objs, Arr(r.xs)), x |-> Ref("caller", Len(r.objs) + 1)]
    ELSE [objs |-> objs, x |-> v]

\* The value a reference stands for, with everything nested in it.
RECURSIVE Load(_, _)
Load(h, x) ==
    IF x.t # "ref" THEN x
    ELSE LET c == h[x.s][x.n]
         IN  IF c.t = "object"
             THEN Obj([i \in 1..Len(c.f) |-> Prop(c.f[i].k, Load(h, c.f[i].v))])
             ELSE Arr([i \in 1..Len(c.e) |-> Load(h, c.e[i])])

\* {} and []: a new object of the call p.
Alloc(h, p, c) ==
    [h |-> [h EXCEPT ![Region(p)] = Append(@, c)],
     x |-> Ref(Region(p), Len(h[Region(p)]) + 1)]

\* value[key] and value[index]
ReadProp(h, x, key) ==
    IF x.t = "ref" /\ h[x.s][x.n].t = "object" THEN FindProp(h[x.s][x.n].f, key, 1)
    ELSE Undefined
ReadIndex(h, x, i) ==
    IF x.t = "ref" THEN At(h[x.s][x.n], i) ELSE Undefined
Elements(h, x) == IF x.t = "ref" THEN h[x.s][x.n].e ELSE <<>>

\* object[key] = v
SetProp(f, key, v) ==
    IF \E i \in 1..Len(f) : f[i].k = key
    THEN [i \in 1..Len(f) |-> IF f[i].k = key THEN Prop(key, v) ELSE f[i]]
    ELSE Append(f, Prop(key, v))

\* data[key] = v for the child at position i of the loop, whose key is key.
WriteData(h, x, key, i, v) ==
    [h EXCEPT ![x.s][x.n] =
        IF @.t = "object" THEN [@ EXCEPT !.f = SetProp(@, key, v)]
        ELSE [@ EXCEPT !.e = Assign(@, i, v)]]

Frame(g, x, nm) == [g |-> g, x |-> x, nm |-> nm, i |-> 1, data |-> Undefined, st |-> "enter"]
Pending == [status |-> "none", x |-> Undefined, msg |-> <<>>]
Returns(x) == [status |-> "returned", x |-> x, msg |-> <<>>]
Raises(msg) == [status |-> "raised", x |-> Undefined, msg |-> msg]

\* The call guard(v, nm), with x standing for v, before its first step; n
\* counts the steps it has taken.
Invocation(g, v, x, nm) ==
    [v |-> v, x |-> x, nm |-> nm, stack |-> <<Frame(g, x, nm)>>, ret |-> Pending, n |-> 0]

Top(c) == c.stack[Len(c.stack)]
Popped(c, ret) == [c EXCEPT !.stack = SubSeq(c.stack, 1, Len(c.stack) - 1), !.ret = ret]
Replaced(c, frame) == [c EXCEPT !.stack[Len(c.stack)] = frame, !.ret = Pending]
Pushed(c, frame) == [c EXCEPT !.stack = Append(c.stack, frame)]
Finished(c) == Len(c.stack) = 0

IsLeaf(g) == g.kind \in {"primitive", "custom", "value"}

\* Mutant of Destination: value[key] = guard(value[key], key); return value
DestinationIsValue(frame) == frame.x

\* The container the loop of a Schema, Array or Tuple guard writes the
\* results of the children to, and returns: its own `data`.
Destination(frame) == frame.data

\* Mutant of NewData: `data` is made once and kept by the guard, so every
\* call writes to the same container.
NewDataOnce(h, p, c) ==
    IF Len(h.first) = 0 THEN Alloc(h, 1, c) ELSE [h |-> h, x |-> Ref("first", 1)]

\* data = {} (var data = [] in validate, the array map() makes): a new
\* container of the call.
NewData(h, p, c) == Alloc(h, p, c)

\* Mutant of NextIndex: the loop stays at the child it has just called.
NextIndexStuck(i) == i

\* The loop goes on to its next child.
NextIndex(i) == i + 1

\* The children a loop calls, in order, each with the value and the name it
\* is handed: descriptor[key] with value[key] and key, guards[index] with
\* value[index] and index, guard with every element and its index, and
\* every alternative with the value and the name themselves.  The guards of
\* "extend" hand their own name to the children of Schema, Tuple and AnyOf.
Kids(im, h, frame) ==
    LET g == frame.g
        own(nm) == IF im = "extend" THEN frame.nm ELSE nm
    IN  CASE g.kind = "schema" ->
               [i \in 1..Len(g.fields) |->
                  [g |-> ObjectKeys(g.fields)[i].g, key |-> ObjectKeys(g.fields)[i].k,
                   x |-> ReadProp(h, frame.x, ObjectKeys(g.fields)[i].k),
                   nm |-> own(Str(ObjectKeys(g.fields)[i].k))]]
          [] g.kind = "tuple" ->
               [i \in 1..Len(g.guards) |->
                  [g |-> g.guards[i], key |-> "", x |-> ReadIndex(h, frame.x, i - 1),
                   nm |-> own(Num(i - 1))]]
          [] g.kind = "array" ->
               [i \in 1..Len(Elements(h, frame.x)) |->
                  [g |-> g.guards[1], key |-> "", x |-> Elements(h, frame.x)[i],
                   nm |-> Num(i - 1)]]
          [] g.kind = "anyof" ->
               [i \in 1..Len(g.guards) |->
                  [g |-> g.guards[i], key |-> "", x |-> frame.x, nm |-> frame.nm]]

\* for (key in this) if (this[key].isGuard): the loops of "extend" pass over
\* the children that lack the marker.
Skipped(im, frame, kid) == im = "extend" /\ frame.g.kind # "array" /\ ~isGuard(kid.g)

\* The first step of a call.  A primitive guard, or a function of the
\* caller, runs as a whole and returns the value it was handed, or its
\* default, or raises.  A Schema, Array or Tuple guard replaces undefined
\* by a new {} or [], raises when the value has not the structure, and else
\* makes its `data`.  An AnyOf guard goes to its first alternative.
Entered(im, h, c, p) ==
    LET frame == Top(c)
        g == frame.g
        v == Load(h, frame.x)
        r == Apply(im, g, v, frame.nm)
        empty == IF g.kind = "schema" THEN Obj(<<>>) ELSE Arr(<<>>)
        a == IF isUndefined(frame.x) THEN Alloc(h, p, empty) ELSE [h |-> h, x |-> frame.x]
        b == NewData(a.h, p, empty)
    IN  IF IsLeaf(g)
        THEN [h |-> h,
              c |-> Popped(c, IF r.ok THEN Returns(IF r.val = v THEN frame.x ELSE r.val)
                              ELSE Raises(r.msg))]
        ELSE IF g.kind = "anyof"
        THEN [h |-> h, c |-> Replaced(c, [frame EXCEPT !.st = "loop"])]
        ELSE IF ~ThisIsValid(g, v)
        THEN [h |-> h,
              c |-> Popped(c, Raises(Render(g.message,
                                            IF im = "extend" THEN "{{name}}" ELSE "{{key}}",
                                            frame.nm, v)))]
        ELSE [h |-> b.h,
              c |-> Replaced(c, [frame EXCEPT !.x = a.x, !.data = b.x, !.st = "loop"])]

\* A loop at position i: it calls its next child, passes over it, or, past
\* the last one, returns its data (AnyOf: raises its own error).
Advanced(im, h, c) ==
    LET frame == Top(c)
        kids == Kids(im, h, frame)
        kid == kids[frame.i]
    IN  IF frame.i > Len(kids)
        THEN Popped(c, IF frame.g.kind = "anyof"
                       THEN Raises(Replace(frame.g.message, "{{value}}",
                                           Replacement(Load(h, frame.x))))
                       ELSE Returns(Destination(frame)))
        ELSE IF Skipped(im, frame, kid)
        THEN Replaced(c, [frame EXCEPT !.i = NextIndex(frame.i)])
        ELSE Pushed(c, Frame(kid.g, kid.x, kid.nm))

\* A child has returned or raised.  The loop of a Schema, Array or Tuple
\* guard stores what the child returned and goes on, and lets an error
\* through to its own caller; AnyOf returns what the child returned, and
\* catches an error and goes on.
Resumed(im, h, c) ==
    LET frame == Top(c)
        kid == Kids(im, h, frame)[frame.i]
        on == [frame EXCEPT !.i = NextIndex(frame.i)]
    IN  IF frame.g.kind = "anyof"
        THEN [h |-> h,
              c |-> IF c.ret.status = "returned" THEN Popped(c, c.ret) ELSE Replaced(c, on)]
        ELSE IF c.ret.status = "raised"
        THEN [h |-> h, c |-> Popped(c, c.ret)]
        ELSE [h |-> WriteData(h, Destination(frame), kid.key, frame.i, c.ret.x),
              c |-> Replaced(c, on)]

StepGuards ==
    {Point, Segment, Pointer, Points, RGB, AnyPoint, Tinted, StringDefault, AnyValue}
StepInputs ==
    {Undefined, Num(17), Fun("hello world"),
     Obj(<<Prop("x", Num(17)), Prop("foo", Str("bar"))>>),
     Obj(<<Prop("y", Str("5"))>>),
     Obj(<<Prop("start", Obj(<<Prop("x", Num(17))>>)), Prop("opacity", Num(0))>>),
     Arr(<<Obj(<<Prop("x", Num(17))>>), Obj(<<Prop("end", Obj(<<Prop("y", Num(2))>>))>>)>>),
     Arr(<<Num(17), Num(255), Num(0)>>), Arr(<<Num(1), Str("foo")>>)}
SecondInputs ==
    {Undefined, Obj(<<Prop("x", Num(2)), Prop("z", Num(3))>>), Arr(<<Obj(<<>>), Obj(<<>>)>>)}

InitSteps ==
    /\ impl \in {"factory", "extend"}
    /\ target \in StepGuards
    /\ value = Undefined
    /\ name = Undefined
    /\ outcome = Return(Undefined, <<>>)
    /\ pc = "stepping"
    /\ argument = NoDescriptor
    /\ \E v1 \in StepInputs :
          LET s1 == Store(<<>>, v1)
          IN  \/ \E v2 \in SecondInputs :
                    LET s2 == Store(s1.objs, v2)
                    IN  /\ heap = [NoObjects EXCEPT !.caller = s2.objs]
                        /\ invocations = <<Invocation(target, v1, s1.x, Undefined),
                                           Invocation(target, v2, s2.x, Str("field"))>>
              \* the second call is handed the very value of the first
              \/ /\ heap = [NoObjects EXCEPT !.caller = s1.objs]
                 /\ invocations = <<Invocation(target, v1, s1.x, Undefined),
                                    Invocation(target, v1, s1.x, Str("field"))>>

\* The call p takes the step that comes to r.
Stepped(p, r) ==
    /\ heap' = r.h
    /\ invocations' = [invocations EXCEPT ![p] = [r.c EXCEPT !.n = @ + 1]]
    /\ UNCHANGED <<impl, target, value, name, outcome, pc, argument>>

\* The step the call p is at.
CanEnter(p) ==
    /\ pc = "stepping"
    /\ ~Finished(invocations[p])
    /\ Top(invocations[p]).st = "enter"
CanAdvance(p) ==
    /\ pc = "stepping"
    /\ ~Finished(invocations[p])
    /\ Top(invocations[p]).st = "loop"
    /\ invocations[p].ret.status = "none"
CanResume(p) ==
    /\ pc = "stepping"
    /\ ~Finished(invocations[p])
    /\ Top(invocations[p]).st = "loop"
    /\ invocations[p].ret.status # "none"

Enter ==
    \E p \in Procs :
        /\ CanEnter(p)
        /\ Stepped(p, Entered(impl, heap, invocations[p], p))

Advance ==
    \E p \in Procs :
        /\ CanAdvance(p)
        /\ Stepped(p, [h |-> heap, c |-> Advanced(impl, heap, invocations[p])])

Resume ==
    \E p \in Procs :
        /\ CanResume(p)
        /\ Stepped(p, Resumed(impl, heap, invocations[p]))

NextSteps ==
    \/ Enter
    \/ Advance
    \/ Resume

Steps == InitSteps /\ [][NextSteps]_vars

(***************************************************************************)
(* Properties.                                                             *)
(***************************************************************************)
Done == pc = "done"
Has(msg, tok) == \E i \in 1..Len(msg) : msg[i] = tok
DescriptorKeys(g) == {g.fields[i].k : i \in 1..Len(g.fields)}
Absent == value = Undefined

\* C1: whenever a Schema guard returns, the keys of the object it returns
\* are exactly the keys of its descriptor: no key of the input that the
\* descriptor lacks, and every key of the descriptor, also those the input
\* lacks.
C1_SchemaKeysExact ==
    (Done /\ target.kind = "schema" /\ outcome.ok)
        => Keys(outcome.val) = DescriptorKeys(target)

C3_TupleLengthIsDescriptorLength ==
    (Done /\ target.kind = "tuple" /\ (isArray(value) \/ Absent) /\ outcome.ok)
        => /\ Len(outcome.val.e) = Len(target.guards)
           /\ \A i \in 1..Len(target.guards) :
                outcome.val.e[i]
                  = Apply(impl, target.guards[i], At(value, i - 1), Num(i - 1)).val

\* C4: whenever an Array guard (part_003, guards.js:393) returns for an array,
\* the output is as long as the input and its element i is what the element
\* guard returns for (input[i], i); also when the element guard is an Array
\* guard itself.
C4_ArrayElementwise ==
    (Done /\ impl \in {"factory", "extend"} /\ target.kind = "array"
          /\ isArray(value) /\ outcome.ok)
        => /\ isArray(outcome.val)
           /\ Len(outcome.val.e) = Len(value.e)
           /\ \A i \in 1..Len(value.e) :
                LET r == Apply(impl, target.guards[1], value.e[i], Num(i - 1))
                IN  r.ok /\ outcome.val.e[i] = r.val

C4_Witness ==
    /\ Done /\ target = Graph /\ outcome.ok
    /\ Len(value.e) = 2
    /\ value.e[1] = Arr(<<Obj(<<Prop("x", Num(17)), Prop("foo", Str("bar"))>>)>>)
    /\ outcome.val.e[1] = Arr(<<Obj(<<Prop("x", Num(17)), Prop("y", Num(0))>>)>>)
    /\ outcome.val.e[2] = Arr(<<>>)

\* C5: a primitive guard built with a default D, invoked with no value,
\* returns D and does not test D against the predicate, also when D fails
\* the predicate (a Function guard whose default is "Anonymous").
C5_DefaultReturnedUnvalidated ==
    (Done /\ target.kind = "primitive" /\ target.hasDefault /\ Absent)
        => outcome.ok /\ outcome.val = target.defaults

C8_StringRejectsNonStrings ==
    (Done /\ target.kind = "primitive" /\ target.isValid = "isString"
          /\ ~Absent /\ value.t # "string")
        => /\ ~outcome.ok
           /\ outcome.val = Undefined
           /\ target.message = StringMessage => Has(outcome.msg, "String")

C8_Witness ==
    /\ Done /\ target = StringDefault /\ value = BoxedStr("foo bar")
    /\ ~outcome.ok /\ Has(outcome.msg, "String")

\* C9: a primitive guard invoked with a defined value that its predicate
\* accepts returns that very value.
C9_ValidValueReturnedAsIs ==
    (Done /\ target.kind = "primitive" /\ ~Absent /\ IsValid(target, value))
        => outcome.ok /\ outcome.val = value

C9_Witness ==
    /\ Done /\ target = Callee /\ value = Fun("hello world")
    /\ outcome.ok /\ outcome.val = Fun("hello world")

StructureError(hint) ==
    /\ ~outcome.ok
    /\ outcome.msg = Render(target.message, hint, name, value)
    /\ outcome.calls = <<>>

\* C11: a Schema guard invoked with an array raises its structure error
\* ("Object expected ...") and invokes no child guard, although an array is
\* object-like; the only inputs that pass the test of the structure are no
\* value and an object that is not an array.
C11_SchemaRejectsArrays ==
    (Done /\ target.kind = "schema"
          /\ ~(Absent \/ (isObject(value) /\ ~isArray(value))))
        => (StructureError("{{key}}") \/ StructureError("{{name}}"))

\* The empty container of a composite guard's kind: {} or [].
EmptyOf(g) == IF g.kind = "schema" THEN Obj(<<>>) ELSE Arr(<<>>)

RECURSIVE FirstAccepting(_, _, _, _, _)
FirstAccepting(im, g, v, nm, i) ==
    IF i > Len(g.guards) THEN 0
    ELSE IF Apply(im, g.guards[i], v, nm).ok THEN i
    ELSE FirstAccepting(im, g, v, nm, i + 1)

\* The calls of the alternatives i..k of g, each invoked with (v, nm), and of
\* the children they invoke.
RECURSIVE CallsOfAlternatives(_, _, _, _, _, _)
CallsOfAlternatives(im, g, v, nm, i, k) ==
    IF i > k THEN <<>>
    ELSE <<Call(g.guards[i], v, nm)>> \o Apply(im, g.guards[i], v, nm).calls
         \o CallsOfAlternatives(im, g, v, nm, i + 1, k)

\* The AnyOf guard of two alternatives with its alternatives swapped.
Swapped(g) == [g EXCEPT !.guards = <<g.guards[2], g.guards[1]>>]

\* C13: an AnyOf guard invokes its alternatives in the declared order, each
\* with the raw input, returns what the first alternative that does not
\* raise returns and invokes no alternative after that one; with two
\* alternatives that both accept the input, the guard returns the result of
\* the first and the guard with the alternatives swapped returns the result
\* of the other; AnyOf(Point, ArrayPoint) gives [1, 0] for [1] and
\* {x: 0, y: 15} for {y: 15}.
C13_AnyOfFirstAccepting ==
    (Done /\ target.kind = "anyof")
        => LET k == FirstAccepting(impl, target, value, name, 1)
               first == Apply(impl, target.guards[1], value, name)
               second == Apply(impl, target.guards[2], value, name)
           IN  /\ k # 0
                    => /\ outcome.ok
                       /\ outcome.val = Apply(impl, target.guards[k], value, name).val
                       /\ outcome.calls
                            = CallsOfAlternatives(impl, target, value, name, 1, k)
               /\ (first.ok /\ second.ok)
                    => /\ outcome.val = first.val
                       /\ Apply(impl, Swapped(target), value, name).val = second.val
               /\ (target = AnyPoint /\ value = Arr(<<Num(1)>>))
                    => outcome.val = Arr(<<Num(1), Num(0)>>)
               /\ (target = AnyPoint /\ value = Obj(<<Prop("y", Num(15))>>))
                    => outcome.val = Obj(<<Prop("x", Num(0)), Prop("y", Num(15))>>)

\* C14: when every alternative of an AnyOf guard raises, the guard raises
\* its own error: the fixed template "Passed value: '{{value}}' has invalid
\* type or structure" with the raw value handed to replace() for {{value}}
\* (for a value that is not a function: its string form) and nothing else
\* substituted; the message of no alternative, the message of a plain
\* function of the caller included, is the message raised.
C14_AnyOfExhaustedError ==
    (Done /\ target.kind = "anyof"
          /\ FirstAccepting(impl, target, value, name, 1) = 0)
        => /\ ~outcome.ok
           /\ outcome.val = Undefined
           /\ outcome.msg = Replace(AnyOfMessage, "{{value}}", Replacement(value))
           /\ ~isFunction(value)
                => outcome.msg = <<"Passed value: '">> \o ToStr(value)
                                   \o <<"' has invalid type or structure">>
           /\ \A i \in 1..Len(target.guards) :
                LET r == Apply(impl, target.guards[i], value, name)
                IN  /\ outcome.msg # r.msg
                    /\ \A j \in 1..Len(r.msg) :
                         r.msg[j] \in {"String", "Number", "Object", "Array",
                                       ColorMessage[1]}
                           => ~Has(outcome.msg, r.msg[j])

C14_Witness ==
    /\ Done /\ impl = "factory" /\ target = AnyColor /\ value = Num(256)
    /\ ~outcome.ok
    /\ outcome.msg = <<"Passed value: '", "256", "' has invalid type or structure">>
    /\ Len(outcome.calls) = 2

\* C15: an AnyOf guard has no default of its own: invoked with no value it
\* returns what the first alternative that does not raise for undefined
\* returns (AnyOf(Point, ArrayPoint)() is Point's {x: 0, y: 0}, and with the
\* alternatives swapped ArrayPoint's [0, 0]), and it raises its own error,
\* rendered for undefined, when every alternative raises for undefined.
C15_AnyOfNoOwnDefault ==
    (Done /\ target.kind = "anyof" /\ Absent)
        => LET k == FirstAccepting(impl, target, Undefined, name, 1)
           IN  /\ k # 0
                    => /\ outcome.ok
                       /\ outcome.val
                            = Apply(impl, target.guards[k], Undefined, name).val
               /\ k = 0
                    => /\ ~outcome.ok
                       /\ outcome.msg = <<"Passed value: '", "undefined",
                                          "' has invalid type or structure">>
               /\ target = AnyPoint
                    => outcome.val = Obj(<<Prop("x", Num(0)), Prop("y", Num(0))>>)
               /\ target = AnyArrayPoint
                    => outcome.val = Arr(<<Num(0), Num(0)>>)
               /\ target = AnyStrict => ~outcome.ok

C15_Witness ==
    /\ Done /\ impl = "factory" /\ target = AnyPoint /\ Absent /\ outcome.ok
    /\ outcome.val = Obj(<<Prop("x", Num(0)), Prop("y", Num(0))>>)
    /\ Len(outcome.calls) = 3

\* The children of a Schema or Tuple guard, in declared order, with the part
\* of the input v each is responsible for and the name of that part.
Children(g, v) ==
    IF g.kind = "schema"
    THEN [i \in 1..Len(g.fields) |->
            [g |-> ObjectKeys(g.fields)[i].g,
             part |-> Get(v, ObjectKeys(g.fields)[i].k),
             key |-> Str(ObjectKeys(g.fields)[i].k)]]
    ELSE [i \in 1..Len(g.guards) |->
            [g |-> g.guards[i], part |-> At(v, i - 1), key |-> Num(i - 1)]]

\* The part of a Schema's or Tuple's output under the key of child i.
Part(g, out, i) ==
    IF g.kind = "schema" THEN Get(out, ObjectKeys(g.fields)[i].k)
    ELSE At(out, i - 1)

\* The input passes the test of the structure of the Schema or Tuple guard g.
RightContainer(g, v) ==
    \/ isUndefined(v)
    \/ g.kind = "schema" /\ v.t = "object"
    \/ g.kind = "tuple" /\ isArray(v)

\* C16: a plain function of the caller used as a Tuple element or a Schema
\* field is invoked with its part of the input (undefined when the input
\* lacks the part) unless an earlier child has raised; what it returns is
\* the part of the output under its key, and an input whose part it rejects
\* makes the enclosing guard raise.
C16_PlainFunctionIsGuard ==
    (Done /\ target.kind \in {"schema", "tuple"} /\ RightContainer(target, value))
        => LET cs == Children(target, value)
           IN  \A i \in 1..Len(cs) :
                 ~isGuard(cs[i].g)
                   => /\ (\A j \in 1..(i - 1) :
                             Apply(impl, cs[j].g, cs[j].part, cs[j].key).ok)
                        => \E c \in 1..Len(outcome.calls) :
                             /\ outcome.calls[c].g = cs[i].g.lbl
                             /\ outcome.calls[c].v = cs[i].part
                      /\ outcome.ok
                           => /\ colorCall(cs[i].part).ok
                              /\ Part(target, outcome.val, i) = colorCall(cs[i].part).val
                      /\ ~colorCall(cs[i].part).ok => ~outcome.ok

\* The guard of the catalogue that carries the label lbl.
GuardOf(lbl) == CHOOSE g \in Guards : g.lbl = lbl

\* The outcome of the logged call c, run again on its own.
Recalled(c) == Apply(impl, GuardOf(c.g), c.v, c.n)

\* C17: through Schema, Tuple and Array layers of any depth, the error the
\* caller sees is the error of the guard that detected the invalid part (the
\* last guard invoked), with the very message that guard raises for the
\* value and the name it was handed: no layer changes it, and no layer
\* returns a value when a guard it invoked has raised.
C17_ErrorPropagatesUnmodified ==
    (Done /\ target.kind \in {"schema", "tuple", "array"} /\ outcome.calls # <<>>)
        => LET last == outcome.calls[Len(outcome.calls)]
           IN  /\ ~outcome.ok
                    => /\ ~Recalled(last).ok
                       /\ outcome.msg = Recalled(last).msg
               /\ outcome.ok
                    => \A c \in 1..Len(outcome.calls) : Recalled(outcome.calls[c]).ok
               /\ (\E c \in 1..Len(outcome.calls) : ~Recalled(outcome.calls[c]).ok)
                    => ~outcome.ok

C17_Witness ==
    /\ Done /\ impl = "factory" /\ target = Pointer
    /\ value = Arr(<<Obj(<<>>),
                     Obj(<<Prop("start", Obj(<<Prop("x", Str("5"))>>))>>)>>)
    /\ ~outcome.ok
    /\ outcome.msg = <<"Number", " expected instead of ", "string", " '", "5", "'">>
    /\ outcome.calls[Len(outcome.calls)].g = "Number(0)"

\* The name the implementation im has the guard of kind `kind` hand to the
\* child it invokes for the part called key, when its own name is nm.
Handed(im, kind, key, nm) ==
    IF im = "extend" /\ kind \in {"schema", "tuple"} THEN nm ELSE key

\* The outcome of the child of field f of the invoked Schema guard for the
\* input's value under the key of f.
FieldOutcome(f) ==
    Apply(impl, f.g, Get(value, f.k), Handed(impl, "schema", Str(f.k), name))

\* The calls of the children of the fields 1..n of the sequence order, and
\* of the guards those children invoke.
RECURSIVE CallsOfFields(_, _)
CallsOfFields(order, n) ==
    IF n = 0 THEN <<>>
    ELSE CallsOfFields(order, n - 1)
         \o <<Call(order[n].g, Get(value, order[n].k),
                   Handed(impl, "schema", Str(order[n].k), name))>>
         \o FieldOutcome(order[n]).calls

\* With two or more invalid fields in the input of the invoked Schema guard,
\* the error raised is that of the first invalid field of the sequence
\* order, and the children of the fields after it are not invoked.
FirstInvalidSurfaces(order) ==
    LET invalid == {i \in 1..Len(order) : ~FieldOutcome(order[i]).ok}
    IN  Cardinality(invalid) >= 2
          => LET i == CHOOSE j \in invalid : \A m \in invalid : j <= m
             IN  /\ ~outcome.ok
                 /\ outcome.msg = FieldOutcome(order[i]).msg
                 /\ outcome.calls = CallsOfFields(order, i)

\* C18, by the order of declaration: when several fields of a Schema input are invalid at
\* once, the error raised is that of the first invalid field in the order in
\* which the descriptor declares its fields, and the children of the fields
\* declared after it are not invoked.
C18_FirstInvalidInDeclarationOrder ==
    (Done /\ impl \in {"factory", "extend"} /\ target.kind = "schema"
          /\ value.t = "object")
        => FirstInvalidSurfaces(target.fields)

\* C18, by the order of enumeration: when several fields of a Schema input are invalid at once,
\* the error raised is that of the first invalid field in the order in which
\* the descriptor's keys are enumerated (the keys that are array indices in
\* ascending order, then the other keys in the order of their declaration),
\* and the children of the fields enumerated after it are not invoked.
C18_FirstInvalidInEnumerationOrder ==
    (Done /\ impl \in {"factory", "extend"} /\ target.kind = "schema"
          /\ value.t = "object")
        => FirstInvalidSurfaces(ObjectKeys(target.fields))

C18_Witness ==
    /\ Done /\ impl = "factory" /\ target = Indexed
    /\ value = Obj(<<Prop("b", Str("5")), Prop("1", Num(17))>>)
    /\ ~outcome.ok
    /\ outcome.msg = <<"String", " expected instead of ", "number", " '", "17", "'">>
    /\ Len(outcome.calls) = 1

\* The guard and the element of each position that the invoked Tuple or
\* Array guard maps: the positions of the descriptor for a Tuple guard, the
\* positions of the input for an Array guard.
Positions ==
    IF target.kind = "tuple"
    THEN [i \in 1..Len(target.guards) |->
            [g |-> target.guards[i], part |-> At(value, i - 1)]]
    ELSE [i \in 1..Len(value.e) |-> [g |-> target.guards[1], part |-> value.e[i]]]

\* The outcome of the guard of position i for its element and its index.
PositionOutcome(i) == Apply(impl, Positions[i].g, Positions[i].part, Num(i - 1))

\* The calls of the guards of the positions 1..n and of the guards they invoke.
RECURSIVE CallsOfPositions(_)
CallsOfPositions(n) ==
    IF n = 0 THEN <<>>
    ELSE CallsOfPositions(n - 1)
         \o <<Call(Positions[n].g, Positions[n].part, Num(n - 1))>>
         \o PositionOutcome(n).calls

ChildrenOf ==
    IF target.kind = "array"
    THEN [i \in 1..Len(value.e) |->
            [g |-> target.guards[1], part |-> value.e[i], key |-> Num(i - 1)]]
    ELSE Children(target, value)

\* The template tpl with its name placeholder, in either spelling, replaced
\* by the name key, and its other placeholders by the value v and its type.
RenderNamed(tpl, key, v) ==
    Replace(Replace(Replace(Replace(tpl, "{{name}}", Replacement(key)),
                            "{{key}}", Replacement(key)),
                    "{{value}}", Replacement(v)),
            "{{type}}", <<TypeOf(v)>>)

\* C20: when the first child to fail under a Schema, Tuple or Array guard is
\* a primitive guard, the message raised is the child's template with its
\* name placeholder, spelled {{name}} or {{key}}, replaced by the name of the
\* field (Schema) or by the index of the element (Tuple, Array); the name of
\* no ancestor is put in front: Outer({inner: {width: "5"}}) names width.
C20_NamePlaceholderIsFieldOrIndex ==
    (Done /\ impl \in {"factory", "extend"}
          /\ target.kind \in {"schema", "tuple", "array"}
          /\ (value.t = "object" \/ isArray(value)))
        => LET cs == ChildrenOf
               invalid == {i \in 1..Len(cs) :
                             ~Apply(impl, cs[i].g, cs[i].part, cs[i].key).ok}
           IN  /\ (~outcome.ok /\ outcome.calls # <<>> /\ invalid # {})
                    => LET i == CHOOSE j \in invalid : \A m \in invalid : j <= m
                       IN  cs[i].g.kind = "primitive"
                             => outcome.msg
                                  = RenderNamed(cs[i].g.message, cs[i].key, cs[i].part)
               /\ (target = Outer
                   /\ value = Obj(<<Prop("inner", Obj(<<Prop("width", Str("5"))>>))>>))
                    => outcome.msg = <<"width", " must be a number, not '", "5", "'">>

\* The name placeholder the primitive guards of implementation im replace.
NameHint(im) == IF im = "early" THEN "{{key}}" ELSE "{{name}}"

\* The text of the template tpl from token i on, with {{value}} standing for
\* the string form of v, {{type}} for typeof v and the name placeholder of
\* the implementation for the string form of nm.
RECURSIVE Filled(_, _, _, _, _)
Filled(tpl, i, hint, nm, v) ==
    IF i > Len(tpl) THEN <<>>
    ELSE (CASE tpl[i] = "{{value}}" -> ToStr(v)
            [] tpl[i] = "{{type}}" -> <<TypeOf(v)>>
            [] tpl[i] = hint -> ToStr(nm)
            [] OTHER -> <<tpl[i]>>)
         \o Filled(tpl, i + 1, hint, nm, v)

\* C21: a primitive guard that raises for an invalid value raises its
\* template, the one it was built with or else the canonical one of its
\* kind, with {{value}} replaced by the string form of the value and
\* {{type}} by its type: String("", "Boom -> {{value}}!")({}) raises
\* "Boom -> [object Object]!", Number(0, "number expected not a {{type}}")
\* ("foo") raises "number expected not a string", and String() raises
\* "String expected instead of ...".
C21_CustomTemplateRendered ==
    (Done /\ target.kind = "primitive" /\ ~outcome.ok
          /\ ~(Absent /\ target.hasDefault))
        => /\ outcome.msg = Filled(target.message, 1, NameHint(impl), name, value)
           /\ (target = StringBoom /\ value = Obj(<<>>))
                => outcome.msg = <<"Boom -> ", "[object Object]", "!">>
           /\ (target = NumberTyped /\ value = Str("foo"))
                => outcome.msg = <<"number expected not a ", "string">>
           /\ (target = StringNone /\ value = Num(17))
                => outcome.msg = <<"String", " expected instead of ", "number",
                                   " '", "17", "'">>

\* The guard g holds no AnyOf guard, at any depth, and every default declared
\* in it passes the predicate of the guard that declares it.
RECURSIVE Settled(_)
Settled(g) ==
    /\ g.kind # "anyof"
    /\ (g.kind = "primitive" /\ g.hasDefault) => IsValid(g, g.defaults)
    /\ \A i \in 1..Len(g.fields) : Settled(g.fields[i].g)
    /\ \A i \in 1..Len(g.guards) : Settled(g.guards[i])

\* The invoked guard, invoked again with the value it has returned.
Again == Apply(impl, target, outcome.val, name)

\* C22, for every guard: when guard(x) returns, guard(guard(x)) returns as
\* well, and returns a value equal to guard(x).
C22_Idempotent ==
    (Done /\ outcome.ok) => (Again.ok /\ Again.val = outcome.val)

\* C22, for the guards without AnyOf whose defaults are valid: when a guard
\* made of primitive, Schema, Tuple and Array guards (and the function color),
\* all of whose declared defaults pass the predicates of the guards that
\* declare them, returns for x, guard(guard(x)) returns as well, and returns
\* a value equal to guard(x).
C22_IdempotentWhenSettled ==
    (Done /\ outcome.ok /\ Settled(target))
        => (Again.ok /\ Again.val = outcome.val)

C22_Witness ==
    /\ Done /\ impl = "factory" /\ target = Pointer /\ outcome.ok
    /\ Len(value.e) = 3
    /\ value.e[1] = Obj(<<Prop("x", Num(17))>>)
    /\ outcome.val # value
    /\ Again.ok /\ Again.val = outcome.val

\* C27: a guard with a declared default replaces no input but undefined by
\* the default: every other input, null, 0, the empty string and false
\* included, is tested against the predicate, returned as it is when it
\* passes and refused when it does not.  Number(5)(0) returns 0 and
\* Number(5)(null) raises.
C27_DefaultOnlyWhenUndefined ==
    (Done /\ target.kind = "primitive" /\ target.hasDefault /\ ~Absent)
        => /\ outcome.ok <=> IsValid(target, value)
           /\ outcome.ok => outcome.val = value
           /\ (target = Number5 /\ value = Num(0)) => outcome = Return(Num(0), <<>>)
           /\ (target = Number5 /\ value = Null) => ~outcome.ok

C27_Witness ==
    /\ Done /\ impl = "factory" /\ target = StringDefault
    /\ value = Str("") /\ outcome = Return(Str(""), <<>>)

\* C29: in the message of a primitive guard, and in the structure error of a
\* Schema guard, each placeholder of the template stands for its own datum
\* and nothing else is substituted: a name or a value whose text reads as a
\* placeholder shows as that text.  (Function values are left to C21.)
C29_InjectedPlaceholderVerbatim ==
    (Done /\ ~outcome.ok /\ ~isFunction(value) /\ ~isFunction(name)
          /\ ~(Absent /\ target.hasDefault))
        => /\ target.kind = "primitive"
                => outcome.msg = Filled(target.message, 1, NameHint(impl), name, value)
           /\ (target.kind = "schema" /\ impl = "factory" /\ outcome.calls = <<>>
                 /\ (~isObject(value) \/ isArray(value)))
                => outcome.msg = Filled(target.message, 1, "{{key}}", name, value)

\* The type a built-in primitive guard expects, by its predicate.
Expected(g) ==
    CASE g.isValid = "isString" -> "String"
      [] g.isValid = "isNumber" -> "Number"
      [] g.isValid = "isBoolean" -> "Boolean"
      [] g.isValid = "isNull" -> "Null"
      [] g.isValid = "isFunction" -> "Function"

\* C30: the canonical message of a built-in primitive guard begins with the
\* type the guard expects: "String expected", "Number expected", "Boolean
\* expected", "Null expected", "Function expected".
C30_CanonicalMessageNamesType ==
    (Done /\ target \in {StringNone, NumberNone, BooleanNone, NullNone, FunctionNone}
          /\ ~outcome.ok)
        => /\ outcome.msg[1] = Expected(target)
           /\ outcome.msg[2] = " expected instead of "

\* C23: no constructor call raises, whatever it is handed: the options of a
\* primitive guard, a descriptor with a child that is not a guard, a value
\* that is neither an object nor an array, or nothing; what is wrong with
\* the descriptor shows when the guard is invoked.
C23_ConstructionTotal ==
    /\ pc # "failed"
    /\ pc = "built" => (outcome.ok /\ target.kind # "value")

\* C28: after the caller has changed the object or array it built a Schema,
\* Tuple or AnyOf guard from, the guard still returns or raises what the
\* guard of the descriptor as it was at construction returns or raises.
C28_DescriptorCapturedAtConstruction ==
    (pc = "called after change" /\ target.kind \in {"schema", "tuple", "anyof"})
        => outcome = Apply(impl, target, value, name)

\* The call p of the interleaved run, and what the same call returns or
\* raises when it runs alone, from its first step to its last.
Alone(p) == Apply(impl, target, invocations[p].v, invocations[p].nm)
AllFinished == pc = "stepping" /\ \A p \in Procs : Finished(invocations[p])
Containers == {"schema", "array", "tuple"}

\* C24: no step of a call changes an object or array of the caller, the
\* input and what is nested in it included, whether the call returns or
\* raises, and none changes the guard; and what a Schema, Tuple or Array
\* guard returns is a container the call itself has made, not the input.
C24_NoSideEffect ==
    /\ [][heap'.caller = heap.caller /\ target' = target]_vars
    /\ [](\A p \in Procs :
            (pc = "stepping" /\ Finished(invocations[p])
               /\ invocations[p].ret.status = "returned"
               /\ target.kind \in Containers)
              => /\ invocations[p].ret.x.t = "ref"
                 /\ invocations[p].ret.x.s = Region(p)
                 /\ invocations[p].ret.x # invocations[p].x)

C24_Witness ==
    /\ pc = "stepping" /\ impl = "factory" /\ target = Point
    /\ Finished(invocations[1])
    /\ invocations[1].v = Obj(<<Prop("x", Num(17)), Prop("foo", Str("bar"))>>)
    /\ Load(heap, invocations[1].ret.x) = Obj(<<Prop("x", Num(17)), Prop("y", Num(0))>>)
    /\ Load(heap, invocations[1].x) = invocations[1].v
    /\ invocations[1].ret.x.s = "first"

\* C25: each of two interleaved calls of the same guard, on the same value
\* or on different ones, returns the value or raises the error that it
\* returns or raises when it runs alone.
C25_InterleavedAsAlone ==
    \A p \in Procs :
        (pc = "stepping" /\ Finished(invocations[p]))
            => /\ (invocations[p].ret.status = "returned") <=> Alone(p).ok
               /\ Alone(p).ok => Load(heap, invocations[p].ret.x) = Alone(p).val
               /\ ~Alone(p).ok => invocations[p].ret.msg = Alone(p).msg

\* The first call has returned while the second one, on another value, is
\* inside a child of its loop.
C25_Witness ==
    /\ pc = "stepping" /\ target = Pointer
    /\ Finished(invocations[1]) /\ invocations[1].ret.status = "returned"
    /\ invocations[1].v # invocations[2].v
    /\ Len(invocations[2].stack) >= 2 /\ Len(heap.second) > 0
    /\ Load(heap, invocations[1].ret.x) = Alone(1).val
    /\ Alone(1).val # invocations[1].v

\* The most steps the call g(x) takes: one to enter, and for a loop two for
\* every child (the call and the return) besides the steps of the child,
\* and one to leave.
RECURSIVE Work(_, _, _, _)
RECURSIVE LoopRest(_, _, _, _)
LoopRest(im, h, frame, j) ==
    LET kids == Kids(im, h, frame)
    IN  IF j > Len(kids) THEN 1
        ELSE 2 + Work(im, h, kids[j].g, kids[j].x) + LoopRest(im, h, frame, j + 1)

Work(im, h, g, x) ==
    IF IsLeaf(g) THEN 1 ELSE 1 + LoopRest(im, h, Frame(g, x, Undefined), 1)

\* The most steps the frame at depth d of the call c still takes itself and
\* in the children it has yet to call.
FrameRest(im, h, c, d) ==
    LET frame == c.stack[d]
    IN  IF frame.st = "enter" THEN Work(im, h, frame.g, frame.x)
        ELSE IF d = Len(c.stack) /\ c.ret.status = "none"
        THEN LoopRest(im, h, frame, frame.i)
        ELSE 1 + LoopRest(im, h, frame, frame.i + 1)

RECURSIVE CallRest(_, _, _, _)
CallRest(im, h, c, d) ==
    IF d > Len(c.stack) THEN 0 ELSE FrameRest(im, h, c, d) + CallRest(im, h, c, d + 1)

\* C26: every call, of every kind and composition of guards, on every
\* value, comes to its end, where it has returned or raised: a call that
\* has not ended can take a step, and the steps it has taken and the steps
\* it still takes at most never exceed the most steps of the whole call,
\* which the guard and the value bound.
C26_Terminates ==
    \A p \in Procs :
        pc = "stepping"
            => /\ Finished(invocations[p])
                    => invocations[p].ret.status \in {"returned", "raised"}
               /\ ~Finished(invocations[p])
                    => (CanEnter(p) \/ CanAdvance(p) \/ CanResume(p))
               /\ invocations[p].n + CallRest(impl, heap, invocations[p], 1)
                    <= Work(impl, heap, target, invocations[p].x)

C26_Witness ==
    /\ AllFinished /\ target = Pointer
    /\ invocations[1].ret.status = "returned"
    /\ invocations[2].ret.status = "raised"
    /\ Len(heap.first) >= 3

====
